---- MODULE Spec2Model ----
(***************************************************************************)
(* State-machine model of src/server.js: an express HTTP API over two      *)
(* mongoose collections (users, payments).  Every route handler is one     *)
(* atomic store operation, except POST /api/users, whose lookup (findOne)  *)
(* and insert (save) are two store operations separated by an await; other *)
(* requests may run between them.  The store is assumed reachable: the     *)
(* only store error modelled is the one the schema itself provokes         *)
(* (duplicate key on a unique index, cast failure of a malformed id).      *)
(***************************************************************************)
EXTENDS Integers, Sequences, FiniteSets, TLC

VARIABLES users, payments, reqs, completed

vars == <<users, payments, reqs, completed>>

\* Number of requests the server receives in one run.
MaxRequests == 3

(***************************************************************************)
(* JSON values of a request body, with the JavaScript type they parse to.  *)
(***************************************************************************)
Undef == [type |-> "undefined", str |-> "", num |-> 0]
Str(s) == [type |-> "string", str |-> s, num |-> 0]
Num(n) == [type |-> "number", str |-> "", num |-> n]

\* A presence test that accepts the number 0.
TruthyOrZero(v) ==
  CASE v.type = "undefined" -> FALSE
    [] v.type = "string" -> v.str # ""
    [] v.type = "number" -> TRUE

\* JavaScript truthiness, as used by the `!x` tests of the handlers.
Truthy(v) ==
  CASE v.type = "undefined" -> FALSE
    [] v.type = "string" -> v.str # ""
    [] v.type = "number" -> v.num # 0

\* typeof v
TypeOf(v) == v.type

(***************************************************************************)
(* Inputs.                                                                 *)
(***************************************************************************)
Uids == {"u1", "u2"}
UserBodies ==
  {[uid |-> Str("u1"), name |-> Str("n1"), email |-> Str("e1")],
   [uid |-> Str("u1"), name |-> Str("n2"), email |-> Str("e2")],
   [uid |-> Str("u2"), name |-> Str("n2"), email |-> Str("e1")],
   [uid |-> Str("u2"), name |-> Str("n1"), email |-> Str("e2")],
   [uid |-> Undef, name |-> Str("n1"), email |-> Str("e1")],
   [uid |-> Str("u1"), name |-> Str("n1"), email |-> Str("")]}
\* <<:uid, body.storageGB>> of PUT /api/users/:uid/storage
StorageRequests ==
  (Uids \X {Num(5), Num(-3)}) \cup {<<"u1", Str("5")>>}
GoodPayment == [userId |-> Str("u1"), gb |-> Num(5), totalPrice |-> Num(100), upiLink |-> Str("upi://x")]
PaymentBodies ==
  {GoodPayment,
   [GoodPayment EXCEPT !.userId = Undef],
   [GoodPayment EXCEPT !.gb = Num(0)],
   [GoodPayment EXCEPT !.totalPrice = Num(0)],
   [GoodPayment EXCEPT !.upiLink = Str("")]}
\* Path parameter :id of PUT /api/payments/:id: well-formed ObjectIds.
IdParams == {1, 2}
StatusBodies == {Str("SUCCESS"), Str("REFUNDED")}

(***************************************************************************)
(* Schemas.                                                                *)
(***************************************************************************)
\* new User({uid, name, email}): storageGB takes its default.
userSchema(uid, name, email) ==
  [uid |-> uid.str, name |-> name.str, email |-> email.str, storageGB |-> 0]

\* new Payment({userId, gb, totalPrice, upiLink}): status and createdAt take
\* their defaults; _id is the generated ObjectId.
paymentSchema(id, b, now) ==
  [id |-> id, userId |-> b.userId.str, gb |-> b.gb.num, totalPrice |-> b.totalPrice.num,
   upiLink |-> b.upiLink.str, status |-> "PENDING", createdAt |-> now]

\* A schema whose only unique index is the one on uid.
UniqueOnUidOnly(coll, doc) ==
  \A i \in 1..Len(coll) : coll[i].uid # doc.uid

\* A schema without unique indexes.
UniqueNone(coll, doc) == TRUE

\* unique: true on uid and on email: the insert is rejected when either key
\* is already in the collection.
UniqueOK(coll, doc) ==
  \A i \in 1..Len(coll) : coll[i].uid # doc.uid /\ coll[i].email # doc.email

\* The ObjectId generated for a new document: never one generated before.
\* Documents are never deleted, so the count of documents is a fresh value.
ObjectId(coll) == Len(coll) + 1

\* Date.now, as a logical clock: the number of responses sent so far.
DateNow == Len(completed)

\* A lookup on the wrong key: the uid is compared with the email field.
FindOneByEmail(coll, uid) ==
  IF \E i \in 1..Len(coll) : coll[i].email = uid
    THEN CHOOSE i \in 1..Len(coll) : coll[i].email = uid
    ELSE 0

\* User.findOne({uid}): index of the matching document, 0 for null.
FindOne(coll, uid) ==
  IF \E i \in 1..Len(coll) : coll[i].uid = uid
    THEN CHOOSE i \in 1..Len(coll) : coll[i].uid = uid /\ \A j \in 1..(i-1) : coll[j].uid # uid
    ELSE 0

\* Payment.findById(id): index of the matching document, 0 for null.
FindById(coll, id) ==
  IF \E i \in 1..Len(coll) : coll[i].id = id
    THEN CHOOSE i \in 1..Len(coll) : coll[i].id = id
    ELSE 0

\* An update without the $inc operator: the field is set to the delta.
IncAsSet(doc, delta) == [doc EXCEPT !.storageGB = delta]

\* A replacement update: the document is replaced by one holding only the
\* key and the new counter.
IncReplace(doc, delta) ==
  [uid |-> doc.uid, name |-> "", email |-> "", storageGB |-> doc.storageGB + delta]

\* { $inc: { storageGB } }
Inc(doc, delta) == [doc EXCEPT !.storageGB = @ + delta]

\* An update that validates the status against the enumeration and drops a
\* value outside it.
SetStatusEnum(doc, status) ==
  IF status \in {"PENDING", "SUCCESS", "FAILED"} THEN [doc EXCEPT !.status = status] ELSE doc

\* { status }
SetStatus(doc, status) == [doc EXCEPT !.status = status]

(***************************************************************************)
(* Requests and responses.                                                 *)
(***************************************************************************)
Res(status, body) == [status |-> status, body |-> body]
Err(msg) == [error |-> msg]
NoRes == Res(0, Err("pending"))

\* A request that is answered in the step that receives it.
Answer(route, param, body, res) ==
  /\ Len(reqs) < MaxRequests
  /\ reqs' = Append(reqs, [route |-> route, param |-> param, body |-> body, pc |-> "done",
                           seen |-> Len(completed), res |-> res])
  /\ completed' = Append(completed, Len(reqs) + 1)

(***************************************************************************)
(* POST /api/users: validation and lookup.                                 *)
(***************************************************************************)
PostUsers(b) ==
  IF ~Truthy(b.uid) \/ ~Truthy(b.email)
    THEN /\ Answer("POST /api/users", "", b, Res(400, Err("UID and email are required")))
         /\ UNCHANGED <<users, payments>>
    ELSE LET i == FindOne(users, b.uid.str) IN
         IF i = 0
           THEN /\ Len(reqs) < MaxRequests
                /\ reqs' = Append(reqs, [route |-> "POST /api/users", param |-> "", body |-> b,
                                         pc |-> "save", seen |-> Len(completed), res |-> NoRes])
                /\ UNCHANGED <<users, payments, completed>>
           ELSE /\ Answer("POST /api/users", "", b,
                          Res(200, [message |-> "User already exists", user |-> users[i]]))
                /\ UNCHANGED <<users, payments>>

(***************************************************************************)
(* POST /api/users: insert of the user the lookup did not find.            *)
(***************************************************************************)
PostUsersSave(r) ==
  /\ r \in 1..Len(reqs)
  /\ reqs[r].pc = "save"
  /\ LET b == reqs[r].body
         user == userSchema(b.uid, b.name, b.email)
     IN IF UniqueOK(users, user)
          THEN /\ users' = Append(users, user)
               /\ reqs' = [reqs EXCEPT ![r].pc = "done",
                                       ![r].res = Res(201, [message |-> "User created", user |-> user])]
          ELSE /\ users' = users
               /\ reqs' = [reqs EXCEPT ![r].pc = "done",
                                       ![r].res = Res(500, Err("E11000 duplicate key error"))]
  /\ completed' = Append(completed, r)
  /\ UNCHANGED payments

(***************************************************************************)
(* GET /api/users/:uid                                                     *)
(***************************************************************************)
GetUser(uid) ==
  LET i == FindOne(users, uid) IN
  /\ IF i = 0
       THEN Answer("GET /api/users/:uid", uid, Undef, Res(404, Err("User not found")))
       ELSE Answer("GET /api/users/:uid", uid, Undef, Res(200, users[i]))
  /\ UNCHANGED <<users, payments>>

(***************************************************************************)
(* PUT /api/users/:uid/storage with the option upsert: true: a uid that    *)
(* matches no user gets a new document.                                    *)
(***************************************************************************)
PutStorageUpsert(uid, storageGB) ==
  IF TypeOf(storageGB) # "number"
    THEN /\ Answer("PUT /api/users/:uid/storage", uid, storageGB,
                   Res(400, Err("storageGB must be a number")))
         /\ UNCHANGED <<users, payments>>
    ELSE LET i == FindOne(users, uid)
             user == IF i = 0
                       THEN [uid |-> uid, name |-> "", email |-> "", storageGB |-> storageGB.num]
                       ELSE Inc(users[i], storageGB.num)
         IN /\ users' = IF i = 0 THEN Append(users, user) ELSE [users EXCEPT ![i] = user]
            /\ Answer("PUT /api/users/:uid/storage", uid, storageGB,
                      Res(200, [message |-> "Storage updated", user |-> user]))
            /\ UNCHANGED payments

(***************************************************************************)
(* PUT /api/users/:uid/storage                                             *)
(***************************************************************************)
PutStorage(uid, storageGB) ==
  IF TypeOf(storageGB) # "number"
    THEN /\ Answer("PUT /api/users/:uid/storage", uid, storageGB,
                   Res(400, Err("storageGB must be a number")))
         /\ UNCHANGED <<users, payments>>
    ELSE LET i == FindOne(users, uid) IN
         IF i = 0
           THEN /\ Answer("PUT /api/users/:uid/storage", uid, storageGB,
                          Res(404, Err("User not found")))
                /\ UNCHANGED <<users, payments>>
           ELSE LET user == Inc(users[i], storageGB.num) IN
                /\ users' = [users EXCEPT ![i] = user]
                /\ Answer("PUT /api/users/:uid/storage", uid, storageGB,
                          Res(200, [message |-> "Storage updated", user |-> user]))
                /\ UNCHANGED payments

(***************************************************************************)
(* POST /api/payments                                                      *)
(***************************************************************************)
PostPayments(b) ==
  IF ~Truthy(b.userId) \/ ~Truthy(b.gb) \/ ~Truthy(b.totalPrice) \/ ~Truthy(b.upiLink)
    THEN /\ Answer("POST /api/payments", "", b, Res(400, Err("Missing required fields")))
         /\ UNCHANGED <<users, payments>>
    ELSE LET payment == paymentSchema(ObjectId(payments), b, DateNow) IN
         /\ payments' = Append(payments, payment)
         /\ Answer("POST /api/payments", "", b, Res(201, payment))
         /\ UNCHANGED users

(***************************************************************************)
(* GET /api/payments                                                       *)
(***************************************************************************)
GetPayments ==
  /\ Answer("GET /api/payments", "", Undef, Res(200, payments))
  /\ UNCHANGED <<users, payments>>

(***************************************************************************)
(* PUT /api/payments/:id                                                   *)
(***************************************************************************)
PutPayment(id, b) ==
  LET i == FindById(payments, id) IN
  IF i = 0
    THEN /\ Answer("PUT /api/payments/:id", id, b, Res(404, Err("Payment not found")))
         /\ UNCHANGED <<users, payments>>
    ELSE LET payment == SetStatus(payments[i], b.str) IN
         /\ payments' = [payments EXCEPT ![i] = payment]
         /\ Answer("PUT /api/payments/:id", id, b, Res(200, payment))
         /\ UNCHANGED users

(***************************************************************************)
(* GET /                                                                   *)
(***************************************************************************)
Root ==
  /\ Answer("GET /", "", Undef, Res(200, [text |-> "API is running..."]))
  /\ UNCHANGED <<users, payments>>

Init ==
  /\ users = <<>>
  /\ payments = <<>>
  /\ reqs = <<>>
  /\ completed = <<>>

Next ==
  \/ \E b \in UserBodies : PostUsers(b)
  \/ \E r \in 1..MaxRequests : PostUsersSave(r)
  \/ \E uid \in Uids : GetUser(uid)
  \/ \E q \in StorageRequests : PutStorage(q[1], q[2])
  \/ \E b \in PaymentBodies : PostPayments(b)
  \/ GetPayments
  \/ \E id \in IdParams, b \in StatusBodies : PutPayment(id, b)
  \/ Root

Spec == Init /\ [][Next]_vars

(***************************************************************************)
(* Observations on the request history.                                    *)
(***************************************************************************)
Requests == 1..Len(reqs)
Done(r) == reqs[r].pc = "done"
\* Position of request r in the order of responses.
Pos(r) == CHOOSE p \in 1..Len(completed) : completed[p] = r
\* Request j was received after request i was answered.
After(i, j) == Done(i) /\ reqs[j].seen >= Pos(i)
IsCreate(r) ==
  /\ reqs[r].route = "POST /api/users"
  /\ reqs[r].body.uid.type = "string" /\ reqs[r].body.uid.str # ""
  /\ reqs[r].body.email.type = "string" /\ reqs[r].body.email.str # ""
Created(r) == IsCreate(r) /\ Done(r) /\ reqs[r].res.status = 201
Adjusted(r, uid) ==
  /\ reqs[r].route = "PUT /api/users/:uid/storage"
  /\ reqs[r].param = uid
  /\ reqs[r].res.status = 200

\* Sum of the deltas of the successful adjustments of uid among the first n
\* responses.
RECURSIVE SumDeltas(_, _)
SumDeltas(uid, n) ==
  IF n = 0 THEN 0
  ELSE SumDeltas(uid, n - 1)
       + (IF Adjusted(completed[n], uid) THEN reqs[completed[n]].body.num ELSE 0)

\* C1: a create-or-fetch received after a create of the same uid was
\* answered 201 answers 200 "User already exists" with the uid, name and
\* email the first call stored (the whole record when it follows the first
\* call directly), whatever name and email it carries, and the store holds
\* exactly one user with that uid.
C1_SecondCreateReturnsExisting ==
  \A i, j \in Requests :
    (Created(i) /\ IsCreate(j) /\ Done(j) /\ After(i, j)
       /\ reqs[j].body.uid = reqs[i].body.uid)
    => /\ reqs[j].res.status = 200
       /\ reqs[j].res.body.message = "User already exists"
       /\ reqs[j].res.body.user.uid = reqs[i].res.body.user.uid
       /\ reqs[j].res.body.user.name = reqs[i].res.body.user.name
       /\ reqs[j].res.body.user.email = reqs[i].res.body.user.email
       /\ (reqs[j].seen = Pos(i) => reqs[j].res.body.user = reqs[i].res.body.user)
       /\ reqs[i].res.body.message = "User created"
       /\ Cardinality({k \in 1..Len(users) : users[k].uid = reqs[i].body.uid.str}) = 1

C1_Witness ==
  \E i, j \in Requests :
    /\ Created(i) /\ IsCreate(j) /\ Done(j) /\ reqs[j].seen = Pos(i)
    /\ reqs[j].body.uid = reqs[i].body.uid
    /\ reqs[j].body.name # reqs[i].body.name
    /\ reqs[j].body.email # reqs[i].body.email
    /\ reqs[j].res.status = 200

\* C2: the stored storageGB of every user is the sum of the deltas of all
\* successful adjustments of that user, and every successful adjustment
\* answers with the sum of the deltas up to and including its own.
C2_StorageIsSumOfDeltas ==
  /\ \A k \in 1..Len(users) :
       users[k].storageGB = SumDeltas(users[k].uid, Len(completed))
  /\ \A r \in Requests :
       (Done(r) /\ Adjusted(r, reqs[r].param))
       => reqs[r].res.body.user.storageGB = SumDeltas(reqs[r].param, Pos(r))

C2_Witness ==
  \E r, q \in Requests :
    /\ r # q
    /\ Done(r) /\ Adjusted(r, "u1") /\ reqs[r].body.num > 0
    /\ Done(q) /\ Adjusted(q, "u1") /\ reqs[q].body.num < 0
    /\ \E k \in 1..Len(users) : users[k].uid = "u1" /\ users[k].storageGB = 2

\* Request r is answered in this step.
Completes(r) ==
  /\ r \in 1..Len(reqs')
  /\ reqs'[r].pc = "done"
  /\ (r > Len(reqs) \/ reqs[r].pc # "done")
\* A request of the given route is received in this step.
Arrives(route) ==
  /\ Len(reqs') = Len(reqs) + 1
  /\ reqs'[Len(reqs')].route = route
\* The request received in this step.
New == reqs'[Len(reqs')]

\* A user with the email of request r, and another uid, was created before
\* request r was received.
EmailTakenBefore(r) ==
  \E i \in Requests :
    /\ i # r /\ Created(i) /\ After(i, r)
    /\ reqs[i].body.email = reqs[r].body.email
    /\ reqs[i].body.uid # reqs[r].body.uid

\* C3: a create with an unused uid and the email of an existing user with
\* another uid answers 500 with an error body, and its insert leaves the
\* stored users as they were.
C3_DuplicateEmailFails ==
  [][\A r \in Requests :
       (reqs[r].pc = "save" /\ Completes(r) /\ EmailTakenBefore(r))
       => /\ reqs'[r].res.status = 500
          /\ DOMAIN reqs'[r].res.body = {"error"}
          /\ users' = users]_vars

C3_Witness ==
  \E r \in Requests :
    /\ IsCreate(r) /\ Done(r) /\ EmailTakenBefore(r)
    /\ reqs[r].res.status = 500
    /\ \A k \in 1..Len(users) : users[k].uid # reqs[r].body.uid.str

\* A field of a request body that is missing, the empty string or 0.
Falsy(v) == v = Undef \/ v = Str("") \/ v = Num(0)

\* C4: a payment create with a missing or falsy userId, gb, totalPrice or
\* upiLink answers 400 and stores nothing; any other stores exactly one new
\* payment, with the fields of the request, status PENDING and an identifier
\* no stored payment has, and answers 201 with that record.
C4_PaymentCreate ==
  [][Arrives("POST /api/payments") =>
       IF Falsy(New.body.userId) \/ Falsy(New.body.gb)
          \/ Falsy(New.body.totalPrice) \/ Falsy(New.body.upiLink)
         THEN New.res.status = 400 /\ payments' = payments
         ELSE /\ New.res.status = 201
              /\ Len(payments') = Len(payments) + 1
              /\ SubSeq(payments', 1, Len(payments)) = payments
              /\ payments'[Len(payments')] = New.res.body
              /\ New.res.body.status = "PENDING"
              /\ New.res.body.userId = New.body.userId.str
              /\ New.res.body.gb = New.body.gb.num
              /\ New.res.body.totalPrice = New.body.totalPrice.num
              /\ New.res.body.upiLink = New.body.upiLink.str
              /\ \A k \in 1..Len(payments) : payments[k].id # New.res.body.id]_vars

C4_Witness ==
  /\ Len(payments) = 2
  /\ payments[1].id # payments[2].id
  /\ \E r \in Requests :
       /\ reqs[r].route = "POST /api/payments" /\ reqs[r].res.status = 201
       /\ reqs[r].res.body = payments[2]
  /\ \E r \in Requests :
       /\ reqs[r].route = "POST /api/payments" /\ reqs[r].res.status = 400
       /\ reqs[r].body.gb = Num(0)

\* The last request answered.
Last == reqs[completed[Len(completed)]]

C6_RejectedRequestsChangeNothing ==
  [][/\ \A r \in 1..Len(reqs') :
          (Completes(r) /\ reqs'[r].res.status \in {400, 404})
          => (users' = users /\ payments' = payments)
     /\ (Arrives("PUT /api/users/:uid/storage") /\ New.body.type = "number"
          /\ \A k \in 1..Len(users) : users[k].uid # New.param)
         => (New.res.status = 404 /\ users' = users)]_vars

C6_Witness ==
  /\ Len(users) = 1
  /\ \E r \in Requests :
       /\ reqs[r].route = "PUT /api/users/:uid/storage"
       /\ reqs[r].body.type = "number"
       /\ reqs[r].res.status = 404
       /\ reqs[r].seen > 0
       /\ \A k \in 1..Len(users) : users[k].uid # reqs[r].param
  /\ \E r \in Requests : Done(r) /\ reqs[r].res.status = 400

\* C7: the status of every stored payment is PENDING, SUCCESS or FAILED.
C7_StatusEnumerated ==
  \A k \in 1..Len(payments) : payments[k].status \in {"PENDING", "SUCCESS", "FAILED"}

\* C8: no two stored users have the same uid, and no two the same email.
C8_UidAndEmailUnique ==
  \A k, l \in 1..Len(users) :
    k # l => (users[k].uid # users[l].uid /\ users[k].email # users[l].email)

C8_Witness ==
  /\ Len(users) = 2
  /\ \E i, j \in Requests :
       /\ i < j /\ IsCreate(i) /\ IsCreate(j) /\ Done(i) /\ Done(j)
       /\ ~After(i, j)
       /\ reqs[j].res.status = 500

\* C9: of two creates with the same uid and the same email, the uid not
\* stored when the first is received and no other create in the run, one
\* answers 201 "User created", the other 200 "User already exists" with the
\* same record, whatever the order of their lookups and inserts.
C9_ConcurrentCreates ==
  \A i, j \in Requests :
    (/\ i # j /\ IsCreate(i) /\ IsCreate(j) /\ Done(i) /\ Done(j)
     /\ reqs[i].body.uid = reqs[j].body.uid
     /\ reqs[i].body.email = reqs[j].body.email
     /\ Pos(i) < Pos(j)
     /\ \A k \in Requests \ {i, j} : reqs[k].route # "POST /api/users")
    => /\ reqs[i].res.status = 201
       /\ reqs[i].res.body.message = "User created"
       /\ reqs[j].res.status = 200
       /\ reqs[j].res.body.message = "User already exists"
       /\ reqs[j].res.body.user.uid = reqs[i].res.body.user.uid
       /\ reqs[j].res.body.user.email = reqs[i].res.body.user.email

\* C10: every stored user stays stored with the same uid, name and email,
\* and the storageGB of a user changes only in a step that answers 200 to an
\* adjustment addressed to the uid of that user, a step that changes no
\* other user and no payment.
C10_UsersStable ==
  [][/\ Len(users') >= Len(users)
     /\ \A k \in 1..Len(users) :
          /\ users'[k].uid = users[k].uid
          /\ users'[k].name = users[k].name
          /\ users'[k].email = users[k].email
          /\ users'[k].storageGB # users[k].storageGB
             => (/\ Arrives("PUT /api/users/:uid/storage")
                 /\ New.param = users[k].uid
                 /\ New.res.status = 200
                 /\ Len(users') = Len(users)
                 /\ \A l \in 1..Len(users) : l # k => users'[l] = users[l]
                 /\ payments' = payments)]_vars

C10_Witness ==
  /\ Len(users) = 2
  /\ users[1].storageGB # 0
  /\ users[2].storageGB = 0
  /\ \E r \in Requests : Done(r) /\ Adjusted(r, users[1].uid)

====
